---------------------------- MODULE Spec2Model ----------------------------
(***************************************************************************)
(* A model of clusterpolate (clusterpolate.py) and of its companion heat   *)
(* map module (heatmap.py).                                                *)
(*                                                                         *)
(* The library is a set of functions; its only object that outlives a call *)
(* is a caller-supplied neighbor index.  A state of the model is the last  *)
(* call (its arguments) and what the call produced.                        *)
(*                                                                         *)
(* Numbers.  Values, intensities and radii are integers.  Coordinates and  *)
(* quotients are exact rationals [n, d] (d > 0, lowest terms); d = 0 is    *)
(* the float NaN that 0/0 produces in numpy.  exp is evaluated in fixed    *)
(* point with Prec digits.  Distances are carried squared (d2): the code   *)
(* only compares them with the radius and squares them.                    *)
(***************************************************************************)
EXTENDS Integers, Sequences, FiniteSets, TLC

VARIABLES call, ret

vars == <<call, ret>>

-----------------------------------------------------------------------------
(* Bounds of the model *)

\* largest x coordinate of a data point or target
MaxCoord == 2
\* largest number of data points of a call
MaxPoints == 2
\* largest key of a gradient stop
MaxKey == 2
\* largest offset, in either direction, of a direct call of _add_image
MaxOffset == 4
\* largest radius of a direct call of _gauss
MaxRadius == 4

-----------------------------------------------------------------------------
(* Exact rational arithmetic *)

Abs(x) == IF x < 0 THEN -x ELSE x

RECURSIVE GCD(_, _)
GCD(a, b) == IF b = 0 THEN a ELSE GCD(b, a % b)

\* the rational n/d in lowest terms with a positive denominator; x/0 is NaN
Rat(n, d) ==
    IF d = 0 THEN [n |-> 0, d |-> 0]
    ELSE LET g == GCD(Abs(n), Abs(d))
             s == IF d < 0 THEN -1 ELSE 1
         IN  [n |-> (s * n) \div g, d |-> (s * d) \div g]

NaN == [n |-> 0, d |-> 0]
IsNaN(a) == a.d = 0
RInt(k) == [n |-> k, d |-> 1]
RZero == RInt(0)
ROne == RInt(1)

\* float arithmetic: NaN is absorbing, every comparison with NaN is false
\* (two integers are added, subtracted and multiplied as integers)
RAdd(a, b) ==
    IF a.d = 1 /\ b.d = 1 THEN [n |-> a.n + b.n, d |-> 1]
    ELSE IF IsNaN(a) \/ IsNaN(b) THEN NaN
    ELSE Rat(a.n * b.d + b.n * a.d, a.d * b.d)
RSub(a, b) ==
    IF a.d = 1 /\ b.d = 1 THEN [n |-> a.n - b.n, d |-> 1]
    ELSE IF IsNaN(a) \/ IsNaN(b) THEN NaN
    ELSE Rat(a.n * b.d - b.n * a.d, a.d * b.d)
RMul(a, b) ==
    IF a.d = 1 /\ b.d = 1 THEN [n |-> a.n * b.n, d |-> 1]
    ELSE IF IsNaN(a) \/ IsNaN(b) THEN NaN
    ELSE Rat(a.n * b.n, a.d * b.d)
RDiv(a, b) == IF IsNaN(a) \/ IsNaN(b) THEN NaN ELSE Rat(a.n * b.d, a.d * b.n)
RLe(a, b) == ~IsNaN(a) /\ ~IsNaN(b) /\ a.n * b.d <= b.n * a.d
RLt(a, b) == ~IsNaN(a) /\ ~IsNaN(b) /\ a.n * b.d < b.n * a.d

\* Python's int(): truncation towards zero
RTrunc(a) == IF a.n >= 0 THEN a.n \div a.d ELSE -((-a.n) \div a.d)

\* math.floor
RFloor(a) == a.n \div a.d

RECURSIVE SumSeq(_)
SumSeq(s) == IF s = <<>> THEN 0 ELSE Head(s) + SumSeq(Tail(s))

RECURSIVE MaxSeq(_)
MaxSeq(s) == IF Len(s) = 1 THEN s[1]
             ELSE LET m == MaxSeq(Tail(s)) IN IF s[1] >= m THEN s[1] ELSE m

\* ndarray.min() / ndarray.max() over a non-empty sequence of rationals
RECURSIVE RMinSeq(_)
RMinSeq(s) == IF Len(s) = 1 THEN s[1]
              ELSE LET m == RMinSeq(Tail(s)) IN IF RLe(s[1], m) THEN s[1] ELSE m

RECURSIVE RMaxSeq(_)
RMaxSeq(s) == IF Len(s) = 1 THEN s[1]
              ELSE LET m == RMaxSeq(Tail(s)) IN IF RLe(m, s[1]) THEN s[1] ELSE m

-----------------------------------------------------------------------------
(* exp in fixed point: a number x is carried as the integer x * Prec *)

Prec == 10 ^ 4

\* a * b and a / b of two fixed-point numbers, rounded to nearest
FMul(a, b) == (a * b + Prec \div 2) \div Prec
FDiv(a, b) == (a * Prec + b \div 2) \div b

\* the Taylor series of exp(f) for 0 <= f <= 1, from term k on
RECURSIVE ExpSeries(_, _, _)
ExpSeries(f, term, k) ==
    IF term = 0 THEN 0
    ELSE term + ExpSeries(f, (term * f + (Prec * k) \div 2) \div (Prec * k), k + 1)

\* exp(1), numpy's np.exp(1)
ExpOne == ExpSeries(Prec, Prec, 1)

\* exp(-y) for y >= 0: exp(-1) ^ floor(y) / exp(frac(y))
RECURSIVE ExpNeg(_)
ExpNeg(y) ==
    IF y = 0 THEN Prec
    ELSE IF y >= Prec THEN FMul(FDiv(Prec, ExpOne), ExpNeg(y - Prec))
    ELSE FDiv(Prec, ExpSeries(y, Prec, 1))

-----------------------------------------------------------------------------
(* clusterpolate.py: the bump kernel *)

\* Kernel weights are kept with two decimals: a weight w is the integer
\* w * WeightScale
WeightScale == 10 ^ 2

\* bump(r)'s kernel at one distance, given squared (d2 = dist ** 2):
\*   ir2 = (1.0 / r) ** 2;  n = np.exp(1)
\*   result = 0;  close = dist < r
\*   result[close] = n * np.exp(-1 / (1 - ir2 * dist[close] ** 2))
\* 1 - ir2 * d2 is (r*r - d2) / (r*r), so the exponent is -(r*r) / (r*r - d2).
kernel(r, d2) ==
    IF RLt(d2, RInt(r * r))
    THEN LET n == ExpOne
             y == RDiv(RInt(r * r), RSub(RInt(r * r), d2))
             e == ExpNeg((y.n * Prec + y.d \div 2) \div y.d)
         IN  (FMul(n, e) * WeightScale + Prec \div 2) \div Prec
    ELSE 0

-----------------------------------------------------------------------------
(* sklearn.neighbors.NearestNeighbors, as clusterpolate uses it *)

\* squared Euclidean distance of two points
D2(p, q) ==
    LET dx == RSub(p[1], q[1])
        dy == RSub(p[2], q[2])
    IN  RAdd(RMul(dx, dx), RMul(dy, dy))

\* neighbors=None
NoIndex == [none |-> TRUE]

\* NearestNeighbors(radius=radius): an index that is not fitted yet
NearestNeighbors(radius) == [none |-> FALSE, radius |-> radius, fitted |-> FALSE, X |-> <<>>]

\* neighbors.fit(points): the index holds points, whatever it held before
fit(nn, points) == [nn EXCEPT !.fitted = TRUE, !.X = points]

\* the indices (in order) of the fitted points within the index's own radius
\* of target t, the radius included
RECURSIVE NeighborsFrom(_, _, _)
NeighborsFrom(nn, t, j) ==
    IF j > Len(nn.X) THEN <<>>
    ELSE (IF RLe(D2(nn.X[j], t), RInt(nn.radius * nn.radius)) THEN <<j>> ELSE <<>>)
         \o NeighborsFrom(nn, t, j + 1)

\* neighbors.radius_neighbors(targets), called without a radius: the query
\* uses the radius the index was constructed with.  Per target, the indices
\* of the neighbors and their (squared) distances.
radius_neighbors(nn, targets) ==
    [i \in 1..Len(targets) |->
        LET ind == NeighborsFrom(nn, targets[i], 1)
        IN  [ind  |-> ind,
             dist |-> [k \in 1..Len(ind) |-> D2(nn.X[ind[k]], targets[i])]]]

-----------------------------------------------------------------------------
(* clusterpolate.py: clusterpolate *)

\* what a call that raises leaves behind: no result, the index operations
\* done so far (ops) and the state of the index
Raise(exc, msg, ops, nn) ==
    [err |-> exc, msg |-> msg, ops |-> ops, index |-> nn]

\* points.shape[0] != values.shape[0]
LengthMismatch(a) == Len(a.points) # Len(a.values)

\* np.sum(weights * values[ind]) / weights_sum
PredictionMean(weights, vals) ==
    Rat(SumSeq([k \in 1..Len(weights) |-> weights[k] * vals[k]]),
        Len(weights) * WeightScale)
Prediction(weights, vals) ==
    Rat(SumSeq([k \in 1..Len(weights) |-> weights[k] * vals[k]]), SumSeq(weights))

\* weights.max()
MembershipSum(weights) == Rat(SumSeq(weights), WeightScale)
Membership(weights) == Rat(MaxSeq(weights), WeightScale)

\* one pass of the loop over zip(dists, inds): (prediction, membership) of a
\* target from its neighbors nb = [ind, dist]
PerTarget(a, nb) ==
    LET weights == [k \in 1..Len(nb.dist) |-> kernel(a.radius, nb.dist[k])]
        weights_sum == SumSeq(weights)
    IN  IF weights_sum > 0
        THEN [p |-> Prediction(weights, [k \in 1..Len(nb.ind) |-> a.values[nb.ind[k]]]),
              m |-> Membership(weights)]
        ELSE [p |-> RZero, m |-> RZero]

\* the index the call works on: a fresh one unless the caller passed one,
\* fitted to points
Index(a) ==
    LET nn == IF a.neighbors.none THEN NearestNeighbors(a.radius) ELSE a.neighbors
    IN  fit(nn, a.points)

\* the call from neighbors.fit(points) on.  sklearn validates its input: it
\* raises ValueError for an array without samples, in fit and in the query.
Fitted(a) ==
    IF Len(a.points) = 0
    THEN Raise("ValueError", "sklearn", <<"fit">>,
               IF a.neighbors.none THEN NearestNeighbors(a.radius) ELSE a.neighbors)
    ELSE LET nn == Index(a) IN
         IF Len(a.targets) = 0
         THEN Raise("ValueError", "sklearn", <<"fit", "radius_neighbors">>, nn)
         ELSE LET nbs == radius_neighbors(nn, a.targets)
                  res == [i \in 1..Len(a.targets) |-> PerTarget(a, nbs[i])]
              IN  [err |-> "", msg |-> "",
                   ops |-> <<"fit", "radius_neighbors">>,
                   index |-> nn,
                   inds |-> [i \in 1..Len(a.targets) |-> nbs[i].ind],
                   predictions |-> [i \in 1..Len(a.targets) |-> res[i].p],
                   membership |-> [i \in 1..Len(a.targets) |-> res[i].m]]

\* clusterpolate(points, values, targets, radius, kernel_factory=bump, neighbors)
ClusterpolateFitFirst(a) ==
    LET r == Fitted(a)
    IN  IF LengthMismatch(a) /\ r.err = ""
        THEN Raise("ValueError", "The numbers of points and values must match.",
                   r.ops, r.index)
        ELSE r
Clusterpolate(a) ==
    IF LengthMismatch(a)
    THEN Raise("ValueError", "The numbers of points and values must match.",
               <<>>, a.neighbors)
    ELSE Fitted(a)

-----------------------------------------------------------------------------
(* clusterpolate.py: image *)

\* a numpy array: its shape and its elements in row-major order
Arr(shape, data) == [shape |-> shape, data |-> data]

\* ndarray.reshape(shape): the same elements under another shape
reshape(A, shape) == Arr(shape, A.data)

\* element [i][j] (from 0) of a 2D array
At(A, i, j) == A.data[i * A.shape[2] + j + 1]

\* area=None
NoArea == [none |-> TRUE]
\* area=((x0, y0), (x1, y1))
Area(c0, c1) == [none |-> FALSE, c |-> <<c0, c1>>]

\* bounding_box(points):
\*   ((p[:, 0].min(), p[:, 1].min()), (p[:, 0].max(), p[:, 1].max()))
bounding_box(points) ==
    LET xs == [k \in 1..Len(points) |-> points[k][1]]
        ys == [k \in 1..Len(points) |-> points[k][2]]
    IN  << <<RMinSeq(xs), RMinSeq(ys)>>, <<RMaxSeq(xs), RMaxSeq(ys)>> >>

\* np.linspace(start, stop, num): num evenly spaced samples, both ends included
linspace(start, stop, num) ==
    [k \in 1..num |->
        IF num = 1 THEN start
        ELSE RAdd(start, RMul(RInt(k - 1), RDiv(RSub(stop, start), RInt(num - 1))))]

\* np.vstack(np.meshgrid(x, y)).reshape(2, -1).T: meshgrid gives two arrays of
\* shape (len(y), len(x)); flattened row by row, element k (from 0) is the
\* point (x[k mod len(x)], y[k div len(x)]).  The result has shape
\* (len(x) * len(y), 2).
meshgrid_targets(x, y) ==
    [k \in 1..(Len(x) * Len(y)) |->
        <<x[((k - 1) % Len(x)) + 1], y[((k - 1) \div Len(x)) + 1]>>]

\* (predictions - pmin) / (pmax - pmin), over the whole grid
normalized(predictions) ==
    LET pmin == RMinSeq(predictions.data)
        pmax == RMaxSeq(predictions.data)
    IN  Arr(predictions.shape,
            [k \in 1..Len(predictions.data) |->
                RDiv(RSub(predictions.data[k], pmin), RSub(pmax, pmin))])

\* PIL.Image.fromarray(a): an array of shape (rows, columns, ...) makes an
\* image of size (width, height) = (columns, rows)
fromarray_size(A) == <<A.shape[2], A.shape[1]>>

\* what a call of image or heatmap that raises leaves behind: the steps done
RaiseAfter(exc, msg, steps) == [err |-> exc, msg |-> msg, steps |-> steps]

\* fewer than 2 points and no area to sample
TooFewPoints(a) == a.area.none /\ Len(a.points) < 2

\* the call from the computation of the area on.  The pixel values of the
\* image are not modelled, its mode and size are.
Sampled(a) ==
    LET area == IF a.area.none THEN bounding_box(a.points) ELSE a.area.c
        pre == IF a.area.none THEN <<"bounding_box">> ELSE <<>>
        x == linspace(area[1][1], area[2][1], a.size[1])
        y == linspace(area[1][2], area[2][2], a.size[2])
        targets == meshgrid_targets(x, y)
        r == Clusterpolate([points |-> a.points, values |-> a.values,
                            targets |-> targets, radius |-> a.radius,
                            neighbors |-> NoIndex])
    IN  IF r.err # ""
        THEN RaiseAfter(r.err, r.msg, pre \o <<"targets", "clusterpolate">>)
        ELSE LET raw == reshape(Arr(<<Len(targets)>>, r.predictions), a.size)
                 memberships == reshape(Arr(<<Len(targets)>>, r.membership), a.size)
                 predictions == IF a.normalize THEN normalized(raw) ELSE raw
             IN  [err |-> "", msg |-> "",
                  steps |-> pre \o <<"targets", "clusterpolate", "image">>,
                  targets |-> Arr(<<Len(targets), 2>>, targets),
                  predictions |-> predictions,
                  memberships |-> memberships,
                  raw |-> raw,
                  img |-> [mode |-> IF a.colormap = "none" THEN "LA" ELSE "RGBA",
                           size |-> fromarray_size(predictions)]]

\* image(points, values, size, area=None, normalize=True, colormap=None, **kwargs)
ImageBoxFirst(a) ==
    IF TooFewPoints(a)
    THEN RaiseAfter("ValueError", "Need at least 2 points for automatic area calculation.",
                    <<"bounding_box">>)
    ELSE Sampled(a)
Image(a) ==
    IF TooFewPoints(a)
    THEN RaiseAfter("ValueError", "Need at least 2 points for automatic area calculation.",
                    <<>>)
    ELSE Sampled(a)

-----------------------------------------------------------------------------
(* heatmap.py: interpolate and gradient *)

\* interpolate(t1, t2, x):
\*   tuple(x * t2[i] + (1 - x) * t1[i] for i in range(len(t1)))
interpolateSwapped(t1, t2, x) ==
    [i \in 1..Len(t1) |-> RAdd(RMul(x, t1[i]), RMul(RSub(ROne, x), t2[i]))]
interpolate(t1, t2, x) ==
    [i \in 1..Len(t1) |-> RAdd(RMul(x, t2[i]), RMul(RSub(ROne, x), t1[i]))]

\* sorted(stops.items()): the (key, colour) pairs of the dictionary stops (a
\* function on its keys), by ascending key
RECURSIVE sorted_items(_, _)
sorted_items(stops, keys) ==
    IF keys = {} THEN <<>>
    ELSE LET k == CHOOSE x \in keys : \A y \in keys : x <= y
         IN  << <<k, stops[k]>> >> \o sorted_items(stops, keys \ {k})

\* the loop  for i, stop in enumerate(stops[1:], start=1)  of colorize, from
\* position i (from 1 here) on
RECURSIVE colorize_from(_, _, _)
colorize_from(stops, v, i) ==
    IF i > Len(stops) THEN stops[Len(stops)][2]
    ELSE IF RLe(v, RInt(stops[i][1]))
    THEN LET previous == stops[i - 1]
             x == RDiv(RSub(v, RInt(previous[1])), RInt(stops[i][1] - previous[1]))
         IN  interpolate(previous[2], stops[i][2], x)
    ELSE colorize_from(stops, v, i + 1)

\* the function colorize(v) that gradient returns, over the sorted stops
colorize(stops, v) ==
    IF RLe(v, RInt(stops[1][1])) THEN stops[1][2]
    ELSE colorize_from(stops, v, 2)

\* gradient(stops)(v): the gradient is built, then applied to v
Gradient(a) ==
    IF DOMAIN a.stops = {}
    THEN [err |-> "ValueError", msg |-> "You must specify at least one stop."]
    ELSE [err |-> "", msg |-> "",
          color |-> colorize(sorted_items(a.stops, DOMAIN a.stops), a.v)]

-----------------------------------------------------------------------------
(* heatmap.py: _gauss, _add_image, heatmap and its bounding_box *)

\* -2 * math.log(0.5 / 255), in units of 1/Prec
NegTwoLogBorder == 124687

\* Image.new(mode, size, color): a PIL image, its pixels addressed by (x, y).
\* The pixels of a mode F image are held in units of 1/Prec.
Image_new(mode, size, color) ==
    [mode |-> mode, size |-> size,
     pix |-> [xy \in (0..(size[1] - 1)) \X (0..(size[2] - 1)) |-> color]]

\* Image.transpose
FLIP_TOP_BOTTOM(im) ==
    [im EXCEPT !.pix = [xy \in DOMAIN im.pix |->
                           im.pix[<<xy[1], im.size[2] - 1 - xy[2]>>]]]
FLIP_LEFT_RIGHT(im) ==
    [im EXCEPT !.pix = [xy \in DOMAIN im.pix |->
                           im.pix[<<im.size[1] - 1 - xy[1], xy[2]>>]]]
ROTATE_180(im) ==
    [im EXCEPT !.pix = [xy \in DOMAIN im.pix |->
                           im.pix[<<im.size[1] - 1 - xy[1], im.size[2] - 1 - xy[2]>>]]]

\* Image.paste(im, box): im is copied with its upper left corner at box; what
\* falls outside of img is clipped
paste(img, im, box) ==
    [img EXCEPT !.pix = [xy \in DOMAIN img.pix |->
        IF <<xy[1] - box[1], xy[2] - box[2]>> \in DOMAIN im.pix
        THEN im.pix[<<xy[1] - box[1], xy[2] - box[2]>>]
        ELSE img.pix[xy]]]

\* sdx=None, and sdx=sd
NoSd == [none |-> TRUE]
Sd(sd) == [none |-> FALSE, v |-> sd]

\* dx = 1 / sdx**2 in units of 1/Prec, after  sdx = sdx or sd_for_r(rx)  with
\* sd_for_r(r) = r / (-2 * math.log(0.5 / 255))**0.5
sd_inv_sq(r, sd) ==
    IF sd.none \/ sd.v = RZero
    THEN Rat(NegTwoLogBorder, r * r)
    ELSE Rat(Prec * sd.v.d * sd.v.d, sd.v.n * sd.v.n)

\* math.exp(-0.5 * (vx + vy)) with vx = dx * (x - rx)**2 and
\* vy = dy * (y - ry)**2
gauss_data_sd(rx, ry, sdx, sdy, x, y) ==
    LET vx == RMul(sd_inv_sq(rx, sdx), RInt((x - rx) * (x - rx)))
        vy == RMul(sd_inv_sq(ry, sdy), RInt((y - ry) * (y - ry)))
        e == RMul(Rat(1, 2), RAdd(vx, vy))
    IN  ExpNeg((2 * e.n + e.d) \div (2 * e.d))

\* the same with the default standard deviations
gauss_data(rx, ry, x, y) == gauss_data_sd(rx, ry, NoSd, NoSd, x, y)

\* _gauss(rx, ry, sdx, sdy), for rx > 0 and ry > 0  (sd_for_r(0) is 0.0, and
\* 1 / sdx**2 then raises ZeroDivisionError)
gauss_sd(rx, ry, sdx, sdy) ==
    LET blank == Image_new("F", <<rx + 1, ry + 1>>, 0)
        quarter == [blank EXCEPT !.pix = [xy \in DOMAIN blank.pix |->
                        gauss_data_sd(rx, ry, sdx, sdy, xy[1], xy[2])]]
        img0 == Image_new("F", <<2 * rx + 1, 2 * ry + 1>>, 0)
        img1 == paste(img0, quarter, <<0, 0>>)
        img2 == paste(img1, FLIP_TOP_BOTTOM(quarter), <<0, ry + 1>>)
        img3 == paste(img2, ROTATE_180(quarter), <<rx + 1, ry + 1>>)
    IN  paste(img3, FLIP_LEFT_RIGHT(quarter), <<rx + 1, 0>>)

\* _gauss(rx, ry)
gauss(rx, ry) == gauss_sd(rx, ry, NoSd, NoSd)

\* a call of _gauss
Gauss(a) == [err |-> "", msg |-> "", img |-> gauss_sd(a.rx, a.ry, a.sdx, a.sdy)]

Max2(a, b) == IF a >= b THEN a ELSE b
Min2(a, b) == IF a <= b THEN a ELSE b

\* _add_image(img1, img2, p, factor):
\*   pix1[x, y] += factor * pix2[x - p0, y - p1]  over the overlap
add_imageFloor(img1, img2, p, factor) ==
    LET p0 == RFloor(p[1])
        p1 == RFloor(p[2])
        xs == Max2(0, p0)..(Min2(img1.size[1], img2.size[1] + p0) - 1)
        ys == Max2(0, p1)..(Min2(img1.size[2], img2.size[2] + p1) - 1)
    IN  [img1 EXCEPT !.pix = [xy \in DOMAIN img1.pix |->
            IF xy[1] \in xs /\ xy[2] \in ys
            THEN img1.pix[xy] + factor * img2.pix[<<xy[1] - p0, xy[2] - p1>>]
            ELSE img1.pix[xy]]]
add_imageOverwrite(img1, img2, p, factor) ==
    LET p0 == RTrunc(p[1])
        p1 == RTrunc(p[2])
        xs == Max2(0, p0)..(Min2(img1.size[1], img2.size[1] + p0) - 1)
        ys == Max2(0, p1)..(Min2(img1.size[2], img2.size[2] + p1) - 1)
    IN  [img1 EXCEPT !.pix = [xy \in DOMAIN img1.pix |->
            IF xy[1] \in xs /\ xy[2] \in ys
            THEN factor * img2.pix[<<xy[1] - p0, xy[2] - p1>>]
            ELSE img1.pix[xy]]]
add_image(img1, img2, p, factor) ==
    LET p0 == RTrunc(p[1])
        p1 == RTrunc(p[2])
        xs == Max2(0, p0)..(Min2(img1.size[1], img2.size[1] + p0) - 1)
        ys == Max2(0, p1)..(Min2(img1.size[2], img2.size[2] + p1) - 1)
    IN  [img1 EXCEPT !.pix = [xy \in DOMAIN img1.pix |->
            IF xy[1] \in xs /\ xy[2] \in ys
            THEN img1.pix[xy] + factor * img2.pix[<<xy[1] - p0, xy[2] - p1>>]
            ELSE img1.pix[xy]]]

\* the coordinates pix1[x, y] that the loops of _add_image write
add_image_writes(img1, img2, p) ==
    LET p0 == RTrunc(p[1])
        p1 == RTrunc(p[2])
    IN  (Max2(0, p0)..(Min2(img1.size[1], img2.size[1] + p0) - 1))
        \X (Max2(0, p1)..(Min2(img1.size[2], img2.size[2] + p1) - 1))

\* the coordinates pix2[x - p0, y - p1] that the loops of _add_image read
add_image_reads(img1, img2, p) ==
    {<<xy[1] - RTrunc(p[1]), xy[2] - RTrunc(p[2])>> : xy \in add_image_writes(img1, img2, p)}

\* a call of _add_image: img1 is updated in place, img2 is only read
AddImage(a) ==
    [err |-> "", msg |-> "",
     img1 |-> add_image(a.img1, a.img2, a.p, a.factor),
     img2 |-> a.img2,
     reads |-> add_image_reads(a.img1, a.img2, a.p),
     writes |-> add_image_writes(a.img1, a.img2, a.p)]

\* bounding_box(points) of heatmap.py: the loop over the points, from point k
\* on; before the first point left = top = Inf and right = bottom = -Inf, so
\* that the first point sets all four
RECURSIVE heatmap_bounding_box_from(_, _, _)
heatmap_bounding_box_from(points, k, box) ==
    IF k > Len(points) THEN box
    ELSE LET point == points[k]
             left == IF k = 1 \/ point[1] < box[1][1] THEN point[1] ELSE box[1][1]
             right == IF k = 1 \/ point[1] > box[2][1] THEN point[1] ELSE box[2][1]
             top == IF k = 1 \/ point[2] < box[1][2] THEN point[2] ELSE box[1][2]
             bottom == IF k = 1 \/ point[2] > box[2][2] THEN point[2] ELSE box[2][2]
         IN  heatmap_bounding_box_from(points, k + 1,
                                       << <<left, top>>, <<right, bottom>> >>)

heatmap_bounding_box(points) ==
    heatmap_bounding_box_from(points, 1, << <<0, 0>>, <<0, 0>> >>)

\* the loop  for point in points  of heatmap, from point k on
RECURSIVE add_points(_, _, _, _, _)
add_points(a, c, img, stamp, k) ==
    IF k > Len(a.points) THEN img
    ELSE LET point == a.points[k]
             intensity == IF Len(point) >= 3 THEN point[3] ELSE a.default_intensity
             x == RMul(RInt(point[1] - c.area[1][1]), c.width_factor)
             y == RMul(RInt(point[2] - c.area[1][2]), c.height_factor)
         IN  add_points(a, c,
                        add_image(img, stamp,
                                  <<RSub(x, RInt(c.rx + 1)), RSub(y, RInt(c.ry + 1))>>,
                                  intensity),
                        stamp, k + 1)

\* the stops of the colorize callback of the calls that pass one
ColorizeStops ==
    sorted_items(0 :> <<RInt(0), RInt(0), RInt(255)>>
                 @@ 1 :> <<RInt(0), RInt(255), RInt(0)>>
                 @@ 2 :> <<RInt(255), RInt(0), RInt(0)>>, {0, 1, 2})

\* the colorize step: every pixel through the callback, its components
\* truncated to integers for a mode other than F
colorized(a, img) ==
    [mode |-> a.mode, size |-> a.size,
     pix |-> [xy \in DOMAIN img.pix |->
                 LET t == colorize(ColorizeStops, Rat(img.pix[xy], Prec))
                 IN  IF a.mode # "F" THEN [i \in 1..Len(t) |-> RTrunc(t[i])] ELSE t]]

\* heatmap from  img = Image.new('F', size, 0)  on, the area known
Accumulated(a, area, pre) ==
    LET w == area[2][1] - area[1][1]
        h == area[2][2] - area[1][2]
        width_factor == Rat(a.size[1], w)
        height_factor == Rat(a.size[2], h)
        rx == RTrunc(RMul(RInt(a.radius), width_factor))
        ry == RTrunc(RMul(RInt(a.radius), height_factor))
        c == [area |-> area, width_factor |-> width_factor,
              height_factor |-> height_factor, rx |-> rx, ry |-> ry]
        img == add_points(a, c, Image_new("F", a.size, 0), gauss(rx, ry), 1)
        adds == [k \in 1..Len(a.points) |-> "_add_image"]
    IN  IF w = 0 \/ h = 0
        THEN RaiseAfter("ZeroDivisionError", "division by zero", pre \o <<"Image.new">>)
        ELSE IF rx = 0 \/ ry = 0
        THEN RaiseAfter("ZeroDivisionError", "float division by zero",
                        pre \o <<"Image.new", "_gauss">>)
        ELSE [err |-> "", msg |-> "",
              steps |-> pre \o <<"Image.new", "_gauss">> \o adds
                        \o (IF a.colorize = "none" THEN <<>> ELSE <<"colorize">>),
              buffer |-> img, rx |-> rx, ry |-> ry, area |-> area,
              img |-> IF a.colorize = "none" THEN img ELSE colorized(a, img)]

\* heatmap(points, area, size, radius, default_intensity, colorize, mode)
Heatmap(a) ==
    IF a.area.none
    THEN IF Len(a.points) < 2
         THEN RaiseAfter("ValueError",
                         "Need at least 2 points for automatic area calculation.", <<>>)
         ELSE Accumulated(a, heatmap_bounding_box(a.points), <<"bounding_box">>)
    ELSE Accumulated(a, a.area.c, <<>>)

-----------------------------------------------------------------------------
(* The calls of clusterpolate that the model makes *)

\* the point (x, y) of integer coordinates
Pt(x, y) == <<RInt(x), RInt(y)>>

Xs == 0..MaxCoord
DataPoints == {Pt(x, 0) : x \in Xs}
TargetPoints == {Pt(x, y) : x \in {0, 1}, y \in {0, 1}}
Values == {-1, 2}
Radii == {1, 2}

SeqsUpTo(S, n) == UNION {[1..k -> S] : k \in 0..n}

\* a caller's index: a NearestNeighbors instance constructed without a radius
\* argument (sklearn's default radius is 1.0), fresh or left fitted by an
\* earlier use
CallerIndexes ==
    {NearestNeighbors(1), fit(NearestNeighbors(1), <<Pt(0, 0)>>)}

ClusterpolateArgs ==
    [points : SeqsUpTo(DataPoints, MaxPoints),
     values : SeqsUpTo(Values, MaxPoints),
     targets : SeqsUpTo(TargetPoints, 2),
     radius : Radii,
     neighbors : {NoIndex} \cup CallerIndexes]

\* the sampling areas: none, the one of the package's test ((0, 0.5), (2, -0.5))
\* and the unit square
Areas ==
    {NoArea,
     Area(<<RInt(0), Rat(1, 2)>>, <<RInt(2), Rat(-1, 2)>>),
     Area(Pt(0, 0), Pt(1, 1))}

ImageArgs ==
    [points : SeqsUpTo(DataPoints, MaxPoints),
     values : SeqsUpTo(Values, MaxPoints),
     size : {1, 2, 3} \X {1, 2},
     area : Areas,
     normalize : BOOLEAN,
     colormap : {"none", "summer"},
     radius : {1}]

\* colours are tuples of numbers
Color(r, g, b) == <<RInt(r), RInt(g), RInt(b)>>
Colors == {Color(255, 0, 0), Color(0, 255, 0), Color(0, 0, 255)}

\* the dictionaries of stops: a colour for each key of a set of keys
StopMaps == UNION {[K -> Colors] : K \in SUBSET (0..MaxKey)}

\* the arguments of a gradient: halves from below the smallest possible key
\* to above the largest
GradientArgs ==
    [stops : StopMaps,
     v : {Rat(k, 2) : k \in (-2)..(2 * MaxKey + 2)}]

\* the points of a heat map: (x, y), or (x, y, intensity)
HeatPoints ==
    {<<x, y>> : x \in Xs, y \in {0, 1}} \cup {<<x, y, 2>> : x \in Xs, y \in {0, 1}}

HeatmapArgs ==
    [points : SeqsUpTo(HeatPoints, 2),
     area : {NoArea, Area(<<0, 0>>, <<2, 2>>), Area(<<0, 0>>, <<4, 4>>)},
     size : {<<4, 4>>, <<3, 2>>},
     radius : Radii,
     default_intensity : {1},
     colorize : {"none", "gradient"},
     mode : {"RGB"}]

\* a mode F image whose pixels all differ: base + 10 x + y, in units of 1/Prec
Patterned(size, base) ==
    [mode |-> "F", size |-> size,
     pix |-> [xy \in (0..(size[1] - 1)) \X (0..(size[2] - 1)) |->
                 base + 10 * xy[1] + xy[2]]]

\* the offsets of the direct calls of _add_image: halves, negative and beyond
\* the buffer included
Offsets == {Rat(k, 2) : k \in (-2 * MaxOffset)..(2 * MaxOffset)}

AddImageArgs ==
    [img1 : {Patterned(size, 1000) : size \in {<<1, 1>>, <<2, 2>>, <<3, 2>>}},
     img2 : {Patterned(size, 1) : size \in {<<1, 1>>, <<2, 1>>, <<3, 3>>}},
     p : Offsets \X Offsets,
     factor : {1, 2}]

\* the arguments of the direct calls of _gauss
GaussArgs ==
    [rx : 1..MaxRadius, ry : 1..MaxRadius,
     sdx : {NoSd, Sd(RInt(2)), Sd(Rat(3, 2))},
     sdy : {NoSd, Sd(RInt(2)), Sd(Rat(3, 2))}]

NoCall == [op |-> "none"]

Init == call = NoCall /\ ret = NoCall

\* a call is made when no call is in progress
CallClusterpolate ==
    /\ call = NoCall
    /\ \E a \in ClusterpolateArgs :
        /\ call' = [op |-> "clusterpolate", a |-> a]
        /\ ret' = Clusterpolate(a)

CallImage ==
    /\ call = NoCall
    /\ \E a \in ImageArgs :
        /\ call' = [op |-> "image", a |-> a]
        /\ ret' = Image(a)

CallGradient ==
    /\ call = NoCall
    /\ \E a \in GradientArgs :
        /\ call' = [op |-> "gradient", a |-> a]
        /\ ret' = Gradient(a)

CallHeatmap ==
    /\ call = NoCall
    /\ \E a \in HeatmapArgs :
        /\ call' = [op |-> "heatmap", a |-> a]
        /\ ret' = Heatmap(a)

CallAddImage ==
    /\ call = NoCall
    /\ \E a \in AddImageArgs :
        /\ call' = [op |-> "_add_image", a |-> a]
        /\ ret' = AddImage(a)

CallGauss ==
    /\ call = NoCall
    /\ \E a \in GaussArgs :
        /\ call' = [op |-> "_gauss", a |-> a]
        /\ ret' = Gauss(a)

\* the caller is done with the result; the library keeps nothing of the call
Return ==
    /\ call # NoCall
    /\ call' = NoCall
    /\ ret' = NoCall

Next == CallClusterpolate \/ Return

Spec == Init /\ [][Next]_vars

\* the calls of gradient
SpecGradient == Init /\ [][CallGradient \/ Return]_vars

\* the calls of _add_image
SpecAddImage == Init /\ [][CallAddImage \/ Return]_vars

\* the calls of _gauss
SpecGauss == Init /\ [][CallGauss \/ Return]_vars

\* the calls of heatmap
SpecHeatmap == Init /\ [][CallHeatmap \/ Return]_vars

\* the calls of image and of heatmap
SpecRender == Init /\ [][CallImage \/ CallHeatmap \/ Return]_vars

\* the calls of image
SpecImage == Init /\ [][CallImage \/ Return]_vars

-----------------------------------------------------------------------------
(* Claims about clusterpolate *)

IsClusterpolate == call.op = "clusterpolate"
\* the call returned (predictions, membership)
Returned == ret.err = ""

Range(s) == {s[k] : k \in 1..Len(s)}

\* the data points within distance `radius` of target t, the radius included
Within(a, t) ==
    {j \in 1..Len(a.points) : RLe(D2(a.points[j], t), RInt(a.radius * a.radius))}
\* the data points strictly closer than `radius` to target t
StrictlyWithin(a, t) ==
    {j \in 1..Len(a.points) : RLt(D2(a.points[j], t), RInt(a.radius * a.radius))}
\* the data points within the query radius of the index the call used
Queried(a, t) ==
    {j \in 1..Len(a.points) :
        RLe(D2(a.points[j], t), RInt(ret.index.radius * ret.index.radius))}

InUnitInterval(x) == RLe(RZero, x) /\ RLe(x, ROne)

\* C1 as stated: membership is in [0,1] and is 0 iff no data point lies
\* within `radius` of the target, distance exactly `radius` included.  Stated
\* for the calls that use the default index.
C1_MembershipZeroIffNoneWithin ==
    (IsClusterpolate /\ Returned /\ call.a.neighbors.none) =>
        \A i \in 1..Len(call.a.targets) :
            /\ InUnitInterval(ret.membership[i])
            /\ (ret.membership[i] = RZero <=> Within(call.a, call.a.targets[i]) = {})

\* C1, amended: membership is in [0,1]; it is 0 iff no data point lies
\* strictly closer than `radius` to the target and within the query radius of
\* the index.  A point at distance exactly `radius` leaves it at 0.
C1_MembershipZeroIffNoneStrictlyWithin ==
    (IsClusterpolate /\ Returned) =>
        \A i \in 1..Len(call.a.targets) :
            /\ InUnitInterval(ret.membership[i])
            /\ (ret.membership[i] = RZero <=>
                    StrictlyWithin(call.a, call.a.targets[i])
                        \cap Queried(call.a, call.a.targets[i]) = {})
            /\ (StrictlyWithin(call.a, call.a.targets[i]) = {}
                    => ret.membership[i] = RZero)

\* a target of a default-index call whose neighbors all lie at distance
\* exactly `radius`, and one of another target with two neighbors inside
C1_Witness ==
    /\ IsClusterpolate /\ Returned /\ call.a.neighbors.none
    /\ \E i \in 1..Len(call.a.targets) :
          /\ Within(call.a, call.a.targets[i]) # {}
          /\ StrictlyWithin(call.a, call.a.targets[i]) = {}
          /\ ret.membership[i] = RZero
    /\ \E i \in 1..Len(call.a.targets) :
          /\ Cardinality(StrictlyWithin(call.a, call.a.targets[i])) = 2
          /\ RLt(RZero, ret.membership[i])

SetMin(S) == CHOOSE x \in S : \A y \in S : x <= y
SetMax(S) == CHOOSE x \in S : \A y \in S : x >= y

\* C2: when membership > 0 the prediction lies between the smallest and the
\* largest value of the target's neighbors, hence between min(values) and
\* max(values).
C2_PredictionConvex ==
    (IsClusterpolate /\ Returned) =>
        \A i \in 1..Len(call.a.targets) :
            RLt(RZero, ret.membership[i]) =>
                LET nv == {call.a.values[j] : j \in Range(ret.inds[i])}
                IN  /\ RLe(RInt(SetMin(nv)), ret.predictions[i])
                    /\ RLe(ret.predictions[i], RInt(SetMax(nv)))
                    /\ RLe(RInt(SetMin(Range(call.a.values))), ret.predictions[i])
                    /\ RLe(ret.predictions[i], RInt(SetMax(Range(call.a.values))))

\* a prediction strictly between two different neighbor values
C2_Witness ==
    /\ IsClusterpolate /\ Returned
    /\ \E i \in 1..Len(call.a.targets) :
          /\ RLt(RZero, ret.membership[i])
          /\ RLt(RInt(SetMin(Range(call.a.values))), ret.predictions[i])
          /\ RLt(ret.predictions[i], RInt(SetMax(Range(call.a.values))))

\* the sum of f[x] over the x in S
RECURSIVE SumOver(_, _)
SumOver(S, f) ==
    IF S = {} THEN 0
    ELSE LET x == CHOOSE y \in S : TRUE IN f[x] + SumOver(S \ {x}, f)

\* the reference result for one target t: with w the kernel weights of the
\* points within `radius`, (sum(w*v)/sum(w), max(w)), or (0, 0) when sum(w) = 0
Reference(a, t) ==
    LET N == Within(a, t)
        w == [j \in N |-> kernel(a.radius, D2(a.points[j], t))]
        wv == [j \in N |-> w[j] * a.values[j]]
        sw == SumOver(N, w)
    IN  IF sw > 0
        THEN [p |-> Rat(SumOver(N, wv), sw),
              m |-> Rat(SetMax({w[j] : j \in N}), WeightScale)]
        ELSE [p |-> RZero, m |-> RZero]

\* C3: for every targets sequence, the empty one included, the call returns
\* two arrays of the length of targets that hold, per target, the reference
\* result.  Stated for the calls with as many values as points, at least one.
C3_EqualsReference ==
    (IsClusterpolate /\ ~LengthMismatch(call.a) /\ Len(call.a.points) > 0) =>
        /\ Returned
        /\ Len(ret.predictions) = Len(call.a.targets)
        /\ Len(ret.membership) = Len(call.a.targets)
        /\ \A i \in 1..Len(call.a.targets) :
              /\ ret.predictions[i] = Reference(call.a, call.a.targets[i]).p
              /\ ret.membership[i] = Reference(call.a, call.a.targets[i]).m

\* C4: a call with len(points) != len(values) raises the ValueError of the
\* length check, returns nothing, and has neither fitted nor queried the
\* index: a caller's index is as it was.
C4_MismatchRaisesFirst ==
    (IsClusterpolate /\ LengthMismatch(call.a)) =>
        /\ ret.err = "ValueError"
        /\ ret.msg = "The numbers of points and values must match."
        /\ DOMAIN ret \cap {"predictions", "membership"} = {}
        /\ ret.ops = <<>>
        /\ ret.index = call.a.neighbors

\* a mismatched call that was handed some targets and a caller's index,
\* fitted by an earlier use
C4_Witness ==
    /\ IsClusterpolate /\ LengthMismatch(call.a)
    /\ ~call.a.neighbors.none /\ call.a.neighbors.fitted
    /\ Len(call.a.points) > 0 /\ Len(call.a.targets) > 0
    /\ ret.err = "ValueError"

\* C10: whichever index the call uses, it is fitted to `points` and the
\* neighbors used for each target are exactly the points within the call's
\* `radius`.
C10_NeighborsWithinCallRadius ==
    (IsClusterpolate /\ Returned) =>
        /\ ret.index.fitted /\ ret.index.X = call.a.points
        /\ \A i \in 1..Len(call.a.targets) :
              Range(ret.inds[i]) = Within(call.a, call.a.targets[i])

-----------------------------------------------------------------------------
(* Claims about image *)

IsImage == call.op = "image"

\* C5: for every size (w, h) and a given area, image returns targets of
\* shape (w, h, 2), predictions and memberships of shape (w, h) and an image
\* of pixel dimensions (width, height) = (w, h).
C5_ShapesFollowSize ==
    (IsImage /\ Returned /\ ~call.a.area.none) =>
        /\ ret.targets.shape = call.a.size \o <<2>>
        /\ ret.predictions.shape = call.a.size
        /\ ret.memberships.shape = call.a.size
        /\ ret.img.size = call.a.size

\* C9 as stated: with normalize, every returned prediction is in [0,1], the
\* cells of the grid minimum hold 0 and those of the grid maximum hold 1, for
\* every grid, one of equal predictions included.
C9_NormalizedUnitRange ==
    (IsImage /\ Returned /\ call.a.normalize) =>
        \A k \in 1..Len(ret.predictions.data) :
            /\ InUnitInterval(ret.predictions.data[k])
            /\ (ret.raw.data[k] = RMinSeq(ret.raw.data) => ret.predictions.data[k] = RZero)
            /\ (ret.raw.data[k] = RMaxSeq(ret.raw.data) => ret.predictions.data[k] = ROne)

-----------------------------------------------------------------------------
(* Claims about gradient *)

IsGradient == call.op = "gradient"

\* x is between a and b, whichever is larger
Between(a, x, b) == (RLe(a, x) /\ RLe(x, b)) \/ (RLe(b, x) /\ RLe(x, a))

\* the clamped piecewise-linear function through the stops, at v
GradientReference(stops, v) ==
    LET keys == DOMAIN stops
        kmin == SetMin(keys)
        kmax == SetMax(keys)
    IN  IF RLe(v, RInt(kmin)) THEN stops[kmin]
        ELSE IF RLe(RInt(kmax), v) THEN stops[kmax]
        ELSE LET lo == SetMax({k \in keys : RLt(RInt(k), v)})
                 hi == SetMin({k \in keys : RLe(v, RInt(k))})
                 x == Rat(v.n - lo * v.d, v.d * (hi - lo))
             IN  [i \in 1..Len(stops[lo]) |->
                     RAdd(RMul(x, stops[hi][i]), RMul(RSub(ROne, x), stops[lo][i]))]

\* C7: for every non-empty stop map and every v, gradient(stops)(v) is the
\* clamped piecewise-linear reference, and between two adjacent stops every
\* component lies between the components of the two stops.
C7_GradientIsPiecewiseLinear ==
    (IsGradient /\ DOMAIN call.a.stops # {}) =>
        /\ Returned
        /\ ret.color = GradientReference(call.a.stops, call.a.v)
        /\ \A lo, hi \in DOMAIN call.a.stops :
              (/\ lo < hi
               /\ \A k \in DOMAIN call.a.stops : ~(lo < k /\ k < hi)
               /\ RLe(RInt(lo), call.a.v) /\ RLe(call.a.v, RInt(hi))) =>
                  \A i \in 1..Len(ret.color) :
                      Between(call.a.stops[lo][i], ret.color[i], call.a.stops[hi][i])

\* v strictly between two adjacent stops of different colours, the upper one
\* an interior stop
C7_Witness ==
    /\ IsGradient /\ Returned
    /\ \E lo, hi, top \in DOMAIN call.a.stops :
          /\ lo < hi /\ hi < top
          /\ \A k \in DOMAIN call.a.stops : ~(lo < k /\ k < hi)
          /\ RLt(RInt(lo), call.a.v) /\ RLt(call.a.v, RInt(hi))
          /\ call.a.stops[lo] # call.a.stops[hi]
          /\ ret.color # call.a.stops[lo] /\ ret.color # call.a.stops[hi]

-----------------------------------------------------------------------------
(* Claims about image and heatmap *)

IsHeatmap == call.op = "heatmap"

TooFewMessage == "Need at least 2 points for automatic area calculation."

\* C6: without an area and with fewer than 2 points, image and heatmap raise
\* ValueError before a bounding box, a grid or a buffer is computed; with an
\* area, no number of points raises this error.
C6_TooFewPointsRaiseFirst ==
    (IsImage \/ IsHeatmap) =>
        /\ (call.a.area.none /\ Len(call.a.points) < 2) =>
              /\ ret.err = "ValueError"
              /\ ret.msg = TooFewMessage
              /\ ret.steps = <<>>
        /\ ~call.a.area.none => ~(ret.err = "ValueError" /\ ret.msg = TooFewMessage)

\* image is called with one point, matching values and no area
C6_Witness ==
    /\ IsImage
    /\ call.a.area.none
    /\ Len(call.a.points) = 1 /\ Len(call.a.values) = 1
    /\ ret.err = "ValueError" /\ ret.steps = <<>>

-----------------------------------------------------------------------------
(* Claims about heatmap *)

\* the intensity of point k of the call
IntensityOf(k) ==
    IF Len(call.a.points[k]) >= 3 THEN call.a.points[k][3]
    ELSE call.a.default_intensity

\* the position of point k in pixel coordinates
PixelPos(k) ==
    LET area == ret.area
    IN  <<Rat((call.a.points[k][1] - area[1][1]) * call.a.size[1],
              area[2][1] - area[1][1]),
          Rat((call.a.points[k][2] - area[1][2]) * call.a.size[2],
              area[2][2] - area[1][2])>>

\* the pixel in which point k lies
PixelOf(k) == <<RFloor(PixelPos(k)[1]), RFloor(PixelPos(k)[2])>>

\* the steps from the plateau of the stamp to its column (or row) i, for a
\* stamp of radius r
StepsOut(r, i) == IF i <= r THEN r - i ELSE i - r - 1

\* the value of the stamp of point k at pixel xy: 0 where the stamp does not
\* reach
StampAt(k, xy) ==
    LET i == xy[1] - RTrunc(RSub(PixelPos(k)[1], RInt(ret.rx + 1)))
        j == xy[2] - RTrunc(RSub(PixelPos(k)[2], RInt(ret.ry + 1)))
    IN  IF i \in 0..(2 * ret.rx) /\ j \in 0..(2 * ret.ry)
        THEN gauss_data(ret.rx, ret.ry,
                        ret.rx - StepsOut(ret.rx, i), ret.ry - StepsOut(ret.ry, j))
        ELSE 0

Orders(n) == {f \in [1..n -> 1..n] : \A i, j \in 1..n : f[i] = f[j] => i = j}

\* C8: the buffer of a heat map holds, at every pixel, the sum over the points
\* of intensity times stamp value, whatever the order of the points; two
\* coincident points of intensities a and b leave a + b at their pixel, more
\* than either alone leaves when both are positive.
C8_HeatmapAccumulates ==
    (IsHeatmap /\ Returned) =>
        LET a == call.a
            n == Len(a.points)
        IN  /\ a.colorize = "none" => ret.img = ret.buffer
            /\ \A xy \in DOMAIN ret.buffer.pix :
                  ret.buffer.pix[xy] =
                      SumOver(1..n, [k \in 1..n |-> IntensityOf(k) * StampAt(k, xy)])
            /\ \A f \in Orders(n) :
                  Heatmap([a EXCEPT !.points = [k \in 1..n |-> a.points[f[k]]]]).buffer
                      = ret.buffer
            /\ (/\ n = 2
                /\ a.points[1][1] = a.points[2][1]
                /\ a.points[1][2] = a.points[2][2]
                /\ PixelOf(1) \in DOMAIN ret.buffer.pix) =>
                  /\ ret.buffer.pix[PixelOf(1)] = (IntensityOf(1) + IntensityOf(2)) * Prec
                  /\ \A k \in 1..2 :
                        ret.buffer.pix[PixelOf(1)] >
                            Heatmap([a EXCEPT !.points = <<a.points[k]>>]).buffer.pix[PixelOf(1)]

\* two coincident points of intensities 1 and 2 in a pixel of the buffer, no
\* colorize: the pixel holds 3
C8_Witness ==
    /\ IsHeatmap /\ Returned
    /\ call.a.colorize = "none"
    /\ Len(call.a.points) = 2
    /\ call.a.points[1] = <<1, 1>> /\ call.a.points[2] = <<1, 1, 2>>
    /\ PixelOf(1) \in DOMAIN ret.img.pix
    /\ ret.img.pix[PixelOf(1)] = 3 * Prec

-----------------------------------------------------------------------------
(* Claims about _add_image *)

IsAddImage == call.op = "_add_image"

\* the translation of img2 by p, p converted to integers as int() does
\* (towards zero): the coordinate of img2 that lies over pixel xy of img1
Under(p, xy) == <<xy[1] - RTrunc(p[1]), xy[2] - RTrunc(p[2])>>

\* C11: _add_image reads only coordinates of img2 and writes only coordinates
\* of img1; exactly the pixels of img1 under the translated img2 grow by
\* factor times the img2 pixel over them, all others keep their value, and
\* img2 is left as it was.
C11_AddImageClips ==
    IsAddImage =>
        LET a == call.a
        IN  /\ ret.err = ""
            /\ ret.reads \subseteq DOMAIN a.img2.pix
            /\ ret.writes \subseteq DOMAIN a.img1.pix
            /\ ret.writes = {xy \in DOMAIN a.img1.pix : Under(a.p, xy) \in DOMAIN a.img2.pix}
            /\ ret.img1.size = a.img1.size
            /\ DOMAIN ret.img1.pix = DOMAIN a.img1.pix
            /\ \A xy \in DOMAIN a.img1.pix :
                  ret.img1.pix[xy] =
                      IF Under(a.p, xy) \in DOMAIN a.img2.pix
                      THEN a.img1.pix[xy] + a.factor * a.img2.pix[Under(a.p, xy)]
                      ELSE a.img1.pix[xy]
            /\ ret.img2 = a.img2

\* a 3 x 3 image added to a 3 x 2 buffer at a negative, fractional offset:
\* part of it is clipped, part of the buffer is changed, part is not
C11_Witness ==
    /\ IsAddImage
    /\ call.a.img1.size = <<3, 2>> /\ call.a.img2.size = <<3, 3>>
    /\ call.a.p = <<Rat(-3, 2), Rat(-1, 2)>>
    /\ ret.img1.pix[<<0, 0>>] # call.a.img1.pix[<<0, 0>>]
    /\ ret.img1.pix[<<2, 0>>] = call.a.img1.pix[<<2, 0>>]
    /\ ret.writes # {} /\ ret.writes # DOMAIN call.a.img1.pix

-----------------------------------------------------------------------------
(* Claims about _gauss *)

IsGauss == call.op = "_gauss"

\* C12: with the default standard deviations the stamp of _gauss(rx, ry) has
\* size (2 rx + 1) x (2 ry + 1), holds its maximum 1 at the centre (rx, ry),
\* is symmetric about the centre, and its four border rows and columns hold
\* the values at distance rx or ry from the centre, below 0.5 / 255.
C12_StampSymmetric ==
    (IsGauss /\ Returned /\ call.a.sdx.none /\ call.a.sdy.none) =>
        LET rx == call.a.rx
            ry == call.a.ry
            pix == ret.img.pix
        IN  /\ ret.img.size = <<2 * rx + 1, 2 * ry + 1>>
            /\ DOMAIN pix = (0..(2 * rx)) \X (0..(2 * ry))
            /\ pix[<<rx, ry>>] = Prec
            /\ \A xy \in DOMAIN pix : pix[xy] <= Prec
            /\ \A i \in 0..rx, j \in 0..ry :
                  /\ pix[<<rx + i, ry + j>>] = pix[<<rx - i, ry - j>>]
                  /\ pix[<<rx + i, ry + j>>] = pix[<<rx - i, ry + j>>]
                  /\ pix[<<rx + i, ry + j>>] = pix[<<rx + i, ry - j>>]
            /\ \A xy \in DOMAIN pix :
                  /\ xy[1] \in {0, 2 * rx} =>
                        pix[xy] = gauss_data(rx, ry, 0, ry - Abs(xy[2] - ry))
                  /\ xy[2] \in {0, 2 * ry} =>
                        pix[xy] = gauss_data(rx, ry, rx - Abs(xy[1] - rx), 0)
                  /\ (xy[1] \in {0, 2 * rx} \/ xy[2] \in {0, 2 * ry}) =>
                        510 * pix[xy] < Prec

-----------------------------------------------------------------------------
(* Claims about the grid of image *)

\* value i (from 0) of n linearly spaced values from start to stop, both
\* included
Spaced(start, stop, n, i) ==
    IF n = 1 THEN start
    ELSE RAdd(start, Rat(i * (stop.n * start.d - start.n * stop.d),
                         (n - 1) * start.d * stop.d))

\* the lattice target of grid index (i, j) of the call
LatticeTarget(i, j) ==
    LET a == call.a
        area == IF a.area.none THEN bounding_box(a.points) ELSE a.area.c
    IN  <<Spaced(area[1][1], area[2][1], a.size[1], i),
          Spaced(area[1][2], area[2][2], a.size[2], j)>>

\* clusterpolate for the single target t, with the arguments of the call
ResultAt(t) ==
    Clusterpolate([points |-> call.a.points, values |-> call.a.values,
                   targets |-> <<t>>, radius |-> call.a.radius,
                   neighbors |-> NoIndex])

\* C13: for every grid index (i, j) of a size (w, h), predictions[i][j] and
\* memberships[i][j] of image are the clusterpolation results for the lattice
\* target (x_i, y_j).
C13_CellsKeepTheirTarget ==
    (IsImage /\ Returned) =>
        \A i \in 0..(call.a.size[1] - 1), j \in 0..(call.a.size[2] - 1) :
            /\ At(ret.memberships, i, j) = ResultAt(LatticeTarget(i, j)).membership[1]
            /\ ~call.a.normalize =>
                  At(ret.predictions, i, j) = ResultAt(LatticeTarget(i, j)).predictions[1]

=============================================================================
